---- MODULE Spec2Model ----
(***************************************************************************)
(* Model of the photo editor's image adjustment pipeline:                  *)
(*   - ImageProcessor (src/utils/image-processor.ts) together with the     *)
(*     worker transport executeImageOperation (image-processing-worker),   *)
(*     on a JavaScript event loop (macrotasks, microtask queue, a worker   *)
(*     thread with message queues);                                        *)
(*   - the undo/redo history of ImageEditorTools                           *)
(*     (src/components/image-editor-tools.tsx);                            *)
(*   - the undo/redo history of ProImageEditor                             *)
(*     (src/components/pro-image-editor.tsx) with its debounced commit.    *)
(***************************************************************************)
EXTENDS Integers, Sequences, FiniteSets, TLC

(***************************************************************************)
(* Bounds of the model.                                                    *)
(***************************************************************************)
MaxCalls == 3           \* calls of updateAdjustments/resetAdjustments/generateFinalImage
MaxNow == 1             \* Date.now() takes the values 0..MaxNow
MaxFaults == 1          \* failing responses of the worker
MaxInits == 2           \* SpecLifecycle: calls of initialize
MaxLifecycleCalls == 2  \* SpecLifecycle: calls made over the lifecycle
MaxResults == 4         \* SpecTools: images rendered by applyChanges
MaxSaves == 4           \* SpecPro: saveToHistory commits
MaxOverflow == 2        \* SpecProCapacity: commits beyond the capacity of 10
MaxFrames == 2          \* animation-frame callbacks pending at one time

(***************************************************************************)
(* ImageProcessor: data.                                                   *)
(***************************************************************************)
Calls == 1..MaxCalls
NoCall == 0

\* defaultAdjustments, one field per worker stage
defaultAdjustments == [brightness |-> 100, saturation |-> 100, filterType |-> "none"]

\* the partial updates the callers pass to updateAdjustments
Partials == {[brightness |-> 150, saturation |-> 50], [filterType |-> "sepia"]}
NoPartial == [f \in {} |-> 0]

\* previewQuality -> qualityFactor, in percent
PreviewQualities == {"medium"}
QualityFactorOf(previewQuality) ==
  IF previewQuality = "low" THEN 50
  ELSE IF previewQuality = "medium" THEN 75 ELSE 100

\* { ...a, ...b }
Merge(a, b) == [f \in DOMAIN a |-> IF f \in DOMAIN b THEN b[f] ELSE a[f]]

NoBuf == [from |-> NoCall, stage |-> "none"]

NewCall == [kind |-> "none", arg |-> NoPartial, pc |-> "idle", result |-> "pending",
            waitedOn |-> NoCall, readyAtCall |-> FALSE, oldQualityFactor |-> 0]

NewRun == [stage |-> "none", started |-> FALSE, mainThread |-> FALSE, qualityFactor |-> 0,
           basic |-> 0, color |-> 0, effects |-> "-", atStart |-> defaultAdjustments,
           buf |-> NoBuf, sent |-> NoBuf, result |-> "pending"]

VARIABLES
  sourceImage,        \* this.sourceImage / this.canvas / this.ctx are set
  loading,            \* initialize is awaiting loadImage
  initResult,         \* the promise of the last initialize call
  inits,              \* number of initialize calls so far
  worker,             \* this.worker is set
  moduleWorker,       \* module-level worker: "none", "live" or "terminated"
  adjustments,        \* this.adjustments
  qualityFactor,      \* this.qualityFactor, in percent
  canvasSize,         \* canvas width and height, in percent of the original
  processingPromise,  \* this.processingPromise: the run it belongs to, or NoCall
  calls,              \* the public calls: kind, arguments, position, result
  runs,               \* the _doProcessImage run started by each call
  waiters,            \* calls awaiting each run's promise at processImage line 180
  microtasks,         \* the microtask queue of the main thread
  listeners,          \* the 'message' listeners registered on the worker
  inbox,              \* messages posted to the worker, not yet handled
  outbox,             \* responses posted by the worker, not yet delivered
  now,                \* Date.now()
  faults,             \* number of failing responses of the worker so far
  workerFailed,       \* a worker-path operation has failed
  otherWorker         \* this.worker of a second ImageProcessor instance is set

procVars == <<sourceImage, loading, initResult, inits, worker, moduleWorker, adjustments,
              qualityFactor, canvasSize, processingPromise, calls, runs, waiters,
              microtasks, listeners, inbox, outbox, now, faults, workerFailed,
              otherWorker>>

VARIABLES
  originalImage,      \* ImageEditorTools: originalImageRef.current is set
  history,            \* ImageEditorTools: history state (data URLs)
  historyIndex,       \* ImageEditorTools: historyIndex state
  controls,           \* ImageEditorTools: brightness, filter
  isRealtime,         \* ImageEditorTools: isRealtime state
  isFirstRender,      \* ImageEditorTools: isFirstRenderRef.current
  pendingOp,          \* ImageEditorTools: pendingOpRef.current (and isProcessing)
  queuedUpdate,       \* ImageEditorTools: the 300 ms timer and the render it closes over
  applying,           \* ImageEditorTools: the applyChanges call in flight
  results,            \* ImageEditorTools: number of images rendered so far
  imageChange         \* ImageEditorTools: last value passed to onImageChange

toolsVars == <<originalImage, history, historyIndex, controls, isRealtime, isFirstRender,
               pendingOp, queuedUpdate, applying, results, imageChange>>

VARIABLES
  isImageLoaded,      \* ProImageEditor: isImageLoaded state
  historyRef,         \* ProImageEditor: historyRef.current
  historyIndexRef,    \* ProImageEditor: historyIndexRef.current
  edits,              \* ProImageEditor: brightness, filter, rotation, flips
  isSliding,          \* ProImageEditor: isSliding state
  undoDisabled,       \* ProImageEditor: the undo button as last rendered
  redoDisabled,       \* ProImageEditor: the redo button as last rendered
  debounce,           \* ProImageEditor: ms left on debouncedSaveToHistory, or Idle
  frames,             \* ProImageEditor: pending animation frames that save, by the handler
                      \* whose render requested each
  saves,              \* ProImageEditor: number of saveToHistory commits so far
  shown               \* ProImageEditor: last entry loaded by undo or redo

proVars == <<isImageLoaded, historyRef, historyIndexRef, edits, isSliding, undoDisabled,
             redoDisabled, debounce, frames, saves, shown>>

VARIABLES
  imageData,          \* stage functions: the ImageData handed to the stage sequence
  params,             \* stage functions: the adjustment parameters handed over
  workerData,         \* stage functions: what the worker's stage sequence returns
  fallbackData,       \* stage functions: what the main-thread fallback leaves on the canvas
  turn                \* rotate buttons: rotation before, degrees per press, rotation now, presses

stageVars == <<imageData, params, workerData, fallbackData, turn>>

VARIABLES
  upload,             \* one call of uploadImageToGoogleDrive, with its retries
  storage             \* localStorage's savedEdits and one call of saveEditToLocalStorage

serviceVars == <<upload, storage>>

vars == <<procVars, toolsVars, proVars, stageVars, serviceVars>>

\* the mutable state the processor's code works on, as one record
Cur ==
  [sourceImage |-> sourceImage, worker |-> worker, moduleWorker |-> moduleWorker,
   adjustments |-> adjustments, qualityFactor |-> qualityFactor,
   canvasSize |-> canvasSize, processingPromise |-> processingPromise,
   calls |-> calls, runs |-> runs, waiters |-> waiters, microtasks |-> microtasks,
   listeners |-> listeners, inbox |-> inbox, outbox |-> outbox,
   workerFailed |-> workerFailed]

Commit(s) ==
  /\ sourceImage' = s.sourceImage
  /\ worker' = s.worker
  /\ moduleWorker' = s.moduleWorker
  /\ adjustments' = s.adjustments
  /\ qualityFactor' = s.qualityFactor
  /\ canvasSize' = s.canvasSize
  /\ processingPromise' = s.processingPromise
  /\ calls' = s.calls
  /\ runs' = s.runs
  /\ waiters' = s.waiters
  /\ microtasks' = s.microtasks
  /\ listeners' = s.listeners
  /\ inbox' = s.inbox
  /\ outbox' = s.outbox
  /\ workerFailed' = s.workerFailed

Enqueue(s, task) == [s EXCEPT !.microtasks = Append(@, task)]

Task(kind, c) == [kind |-> kind, call |-> c, ok |-> TRUE, buf |-> NoBuf]

(***************************************************************************)
(* executeImageOperation: register a listener under operationId =          *)
(* Date.now().toString() and post the message, transferring the buffer.    *)
(***************************************************************************)
\* postMessage throws (and the promise rejects) when there is no worker object
\* or when the buffer to transfer was already transferred by another run
PostThrows(s, c) ==
  \/ ~s.worker
  \/ \E d \in Calls \ {c} : s.runs[c].buf # NoBuf /\ s.runs[d].sent = s.runs[c].buf

executeImageOperation(s, c, action) ==
  [s EXCEPT
     !.listeners = Append(@, [id |-> now, call |-> c]),
     !.inbox = IF s.moduleWorker = "live"
               THEN Append(@, [id |-> now, call |-> c, action |-> action])
               ELSE @,
     !.runs[c].sent = s.runs[c].buf,
     !.runs[c].stage = action]

(***************************************************************************)
(* Settling of a run's promise: the reactions are queued in the order in   *)
(* which they were registered, processImage's own await (line 187) first,  *)
(* then the calls that awaited it at line 180.                             *)
(***************************************************************************)
Settle(s, c) ==
  LET w == s.waiters[c]
      reactions == <<Task("resume187", c)>> \o [i \in 1..Len(w) |-> Task("resume180", w[i])]
  IN [s EXCEPT !.runs[c].stage = "done",
               !.waiters[c] = <<>>,
               !.microtasks = @ \o reactions]

\* processImageOnMainThread: synchronous; null when the processor has no image.
\* _doProcessImage returns its promise, which settles in a later microtask.
processImageOnMainThread(s, c) ==
  Enqueue([s EXCEPT
             !.runs[c].stage = "settling",
             !.runs[c].mainThread = TRUE,
             !.runs[c].basic = s.adjustments.brightness,
             !.runs[c].color = s.adjustments.saturation,
             !.runs[c].effects = s.adjustments.filterType,
             !.runs[c].result = IF s.sourceImage THEN "image" ELSE "null"],
          Task("settle", c))

\* one worker stage of _doProcessImage; the parameters are read from
\* this.adjustments when the stage is dispatched
Stage(s, c, action) ==
  LET s1 == [s EXCEPT
               !.runs[c].basic = IF action = "basic" THEN s.adjustments.brightness ELSE @,
               !.runs[c].color = IF action = "color" THEN s.adjustments.saturation ELSE @,
               !.runs[c].effects = IF action = "effects" THEN s.adjustments.filterType ELSE @]
  IN IF PostThrows(s1, c)
     THEN processImageOnMainThread([s1 EXCEPT !.workerFailed = TRUE], c)
     ELSE executeImageOperation(s1, c, action)

\* end of the worker path: ctx.putImageData and canvasToDataURL
FinishWorkerPath(s, c) ==
  IF s.sourceImage
  THEN Settle([s EXCEPT !.runs[c].result = "image"], c)
  ELSE processImageOnMainThread(s, c)

\* _doProcessImage, up to its first await
doProcessImage(s, c) ==
  IF ~s.sourceImage
  THEN Enqueue([s EXCEPT !.runs[c].stage = "done", !.runs[c].result = "null"],
               Task("resume187", c))
  ELSE LET s1 == [s EXCEPT !.runs[c].started = TRUE,
                           !.runs[c].atStart = s.adjustments,
                           !.runs[c].qualityFactor = s.qualityFactor,
                           !.runs[c].buf = [from |-> c, stage |-> "geometry"]]
       IN IF s1.worker THEN Stage(s1, c, "basic")
                       ELSE processImageOnMainThread(s1, c)

\* continuation of _doProcessImage after a worker response
StageResponse(s, c, ok, buf) ==
  IF ~ok
  THEN processImageOnMainThread([s EXCEPT !.workerFailed = TRUE], c)
  ELSE LET s1 == [s EXCEPT !.runs[c].buf = buf]
       IN CASE s.runs[c].stage = "basic" -> Stage(s1, c, "color")
            [] s.runs[c].stage = "color" ->
                 IF s1.adjustments.filterType # "none"
                 THEN Stage(s1, c, "effects")
                 ELSE FinishWorkerPath(s1, c)
            [] OTHER -> FinishWorkerPath(s1, c)

\* processImage without its guard
GuardDropped(s) == FALSE

\* the guard of processImage
NotReady(s) == ~s.sourceImage

\* processImage lines 183-184: start the run and publish its promise
StartRun(s, c) ==
  doProcessImage([s EXCEPT !.processingPromise = c, !.calls[c].pc = "await187"], c)

\* processImage, up to its first await
processImage(s, c) ==
  IF NotReady(s)
  THEN [s EXCEPT !.calls[c].pc = "done", !.calls[c].result = "null"]
  ELSE IF s.processingPromise # NoCall
  THEN LET p == s.processingPromise
           s1 == [s EXCEPT !.calls[c].pc = "await180", !.calls[c].waitedOn = p]
       IN IF s.runs[p].stage = "done"
          THEN Enqueue(s1, Task("resume180", c))
          ELSE [s1 EXCEPT !.waiters[p] = Append(@, c)]
  ELSE StartRun(s, c)

\* processImage after 'await this.processingPromise' (line 180)
Resume180(s, c) == StartRun(s, c)

\* processImage after 'await this.processingPromise' (line 187) and its finally
Resume187(s, c) ==
  LET s1 == [s EXCEPT !.processingPromise = NoCall]
  IN IF s.calls[c].kind = "final"
     THEN Enqueue([s1 EXCEPT !.calls[c].pc = "awaitFinal"], Task("finalResume", c))
     ELSE [s1 EXCEPT !.calls[c].pc = "done", !.calls[c].result = s.runs[c].result]

\* generateFinalImage after 'await this.processImage()' and its finally
FinalResume(s, c) ==
  [s EXCEPT !.qualityFactor = s.calls[c].oldQualityFactor,
            !.canvasSize = IF s.sourceImage THEN s.calls[c].oldQualityFactor ELSE @,
            !.calls[c].pc = "done",
            !.calls[c].result = s.runs[c].result]

(***************************************************************************)
(* ImageProcessor: the operations.  A public call and a delivered worker   *)
(* message are macrotasks: they start only when the microtask queue is     *)
(* empty.                                                                  *)
(***************************************************************************)
procBookkeeping == <<loading, initResult, inits, now, faults, otherWorker, toolsVars, proVars,
                      stageVars, serviceVars>>

\* the next call of the callers
NextCall == CHOOSE c \in Calls : calls[c].kind = "none" /\ \A d \in 1..(c - 1) : calls[d].kind # "none"
CanCall == microtasks = <<>> /\ \E c \in Calls : calls[c].kind = "none"

Begin(s, c, kind, arg) ==
  [s EXCEPT !.calls[c].kind = kind, !.calls[c].arg = arg,
            !.calls[c].readyAtCall = s.sourceImage]

updateAdjustments(newAdjustments) ==
  /\ CanCall
  /\ LET c == NextCall
         s == [Begin(Cur, c, "update", newAdjustments)
                 EXCEPT !.adjustments = Merge(adjustments, newAdjustments)]
     IN Commit(processImage(s, c))
  /\ UNCHANGED procBookkeeping

resetAdjustments ==
  /\ CanCall
  /\ LET c == NextCall
         s == [Begin(Cur, c, "reset", NoPartial) EXCEPT !.adjustments = defaultAdjustments]
     IN Commit(processImage(s, c))
  /\ UNCHANGED procBookkeeping

generateFinalImage ==
  /\ CanCall
  /\ LET c == NextCall
         s == Begin(Cur, c, "final", NoPartial)
     IN IF ~sourceImage
        THEN Commit([s EXCEPT !.calls[c].pc = "done", !.calls[c].result = "null"])
        ELSE Commit(processImage([s EXCEPT !.calls[c].oldQualityFactor = qualityFactor,
                                           !.qualityFactor = 100,
                                           !.canvasSize = 100], c))
  /\ UNCHANGED procBookkeeping

\* getWorker: the module-level worker is created once and then reused
getWorker(s, created) ==
  IF s.moduleWorker = "none"
  THEN IF created THEN [s EXCEPT !.moduleWorker = "live", !.worker = TRUE] ELSE s
  ELSE [s EXCEPT !.worker = TRUE]

\* a cleanup that releases nothing
KeepResources(s) == s

\* cleanup: sourceImage, canvas, editCanvas and ctx become null
cleanup(s) == [s EXCEPT !.sourceImage = FALSE, !.canvasSize = 0]

\* initialize, up to 'await this.loadImage'
initialize(previewQuality, created) ==
  /\ microtasks = <<>>
  /\ ~loading
  /\ Commit(getWorker([cleanup(Cur) EXCEPT !.qualityFactor = QualityFactorOf(previewQuality),
                                           !.adjustments = defaultAdjustments], created))
  /\ loading' = TRUE
  /\ initResult' = "pending"
  /\ inits' = inits + 1
  /\ UNCHANGED <<now, faults, otherWorker, toolsVars, proVars, stageVars, serviceVars>>

\* initialize after loadImage: the image is decoded, or loadImage rejects with
\* 'Failed to load image' and, nothing catching it, so does initialize
initializeLoaded(decoded) ==
  /\ microtasks = <<>>
  /\ loading
  /\ loading' = FALSE
  /\ initResult' = IF decoded THEN "resolved" ELSE "rejected"
  /\ Commit(IF decoded
            THEN [Cur EXCEPT !.sourceImage = TRUE, !.canvasSize = qualityFactor]
            ELSE Cur)
  /\ UNCHANGED <<inits, now, faults, otherWorker, toolsVars, proVars, stageVars, serviceVars>>

\* destroy: cleanup and worker.terminate()
destroy ==
  /\ microtasks = <<>>
  /\ sourceImage \/ worker
  /\ Commit(IF worker
            THEN [cleanup(Cur) EXCEPT !.worker = FALSE,
                                      !.moduleWorker = "terminated",
                                      !.inbox = <<>>, !.outbox = <<>>]
            ELSE cleanup(Cur))
  /\ UNCHANGED <<loading, initResult, inits, now, faults, otherWorker, toolsVars, proVars,
                 stageVars, serviceVars>>

\* initialize of a second ImageProcessor instance on the same page, as far as
\* the worker goes: this.worker = getWorker()
otherInitialize(created) ==
  /\ microtasks = <<>>
  /\ ~otherWorker
  /\ LET s == getWorker([Cur EXCEPT !.worker = otherWorker], created)
     IN /\ moduleWorker' = s.moduleWorker
        /\ otherWorker' = s.worker
  /\ UNCHANGED <<sourceImage, loading, initResult, inits, worker, adjustments,
                 qualityFactor, canvasSize, processingPromise, calls, runs, waiters,
                 microtasks, listeners, inbox, outbox, now, faults, workerFailed,
                 toolsVars, proVars, stageVars, serviceVars>>

\* destroy of the second instance: this.worker.terminate(); this.worker = null
otherDestroy ==
  /\ microtasks = <<>>
  /\ otherWorker
  /\ otherWorker' = FALSE
  /\ moduleWorker' = "terminated"
  /\ inbox' = <<>>
  /\ outbox' = <<>>
  /\ UNCHANGED <<sourceImage, loading, initResult, inits, worker, adjustments,
                 qualityFactor, canvasSize, processingPromise, calls, runs, waiters,
                 microtasks, listeners, now, faults, workerFailed,
                 toolsVars, proVars, stageVars, serviceVars>>

\* the worker's onmessage: handle one message and post the response
WorkerOnMessage(success) ==
  /\ moduleWorker = "live"
  /\ inbox # <<>>
  /\ success \/ faults < MaxFaults
  /\ faults' = IF success THEN faults ELSE faults + 1
  /\ LET m == Head(inbox)
     IN /\ inbox' = Tail(inbox)
        /\ outbox' = Append(outbox, [id |-> m.id, success |-> success,
                                     buf |-> [from |-> m.call, stage |-> m.action]])
  /\ UNCHANGED <<sourceImage, loading, initResult, inits, worker, moduleWorker, adjustments,
                 qualityFactor, canvasSize, processingPromise, calls, runs, waiters,
                 microtasks, listeners, now, workerFailed, otherWorker,
                 toolsVars, proVars, stageVars, serviceVars>>

\* delivery of a worker response: every listener whose operationId equals the
\* response's id removes itself and settles its promise
handleMessage ==
  /\ microtasks = <<>>
  /\ outbox # <<>>
  /\ LET r == Head(outbox)
         hit == SelectSeq(listeners, LAMBDA l : l.id = r.id)
     IN /\ listeners' = SelectSeq(listeners, LAMBDA l : l.id # r.id)
        /\ microtasks' = [i \in 1..Len(hit) |->
                            [kind |-> "stage", call |-> hit[i].call,
                             ok |-> r.success, buf |-> r.buf]]
  /\ outbox' = Tail(outbox)
  /\ UNCHANGED <<sourceImage, loading, initResult, inits, worker, moduleWorker, adjustments,
                 qualityFactor, canvasSize, processingPromise, calls, runs, waiters,
                 inbox, now, faults, workerFailed, otherWorker, toolsVars, proVars, stageVars, serviceVars>>

\* the main thread runs the oldest microtask
RunMicrotask ==
  /\ microtasks # <<>>
  /\ LET t == Head(microtasks)
         s == [Cur EXCEPT !.microtasks = Tail(microtasks)]
     IN Commit(CASE t.kind = "settle" -> Settle(s, t.call)
                 [] t.kind = "resume187" -> Resume187(s, t.call)
                 [] t.kind = "resume180" -> Resume180(s, t.call)
                 [] t.kind = "finalResume" -> FinalResume(s, t.call)
                 [] OTHER -> StageResponse(s, t.call, t.ok, t.buf))
  /\ UNCHANGED <<loading, initResult, inits, now, faults, otherWorker, toolsVars, proVars,
                 stageVars, serviceVars>>

\* the clock read by Date.now() advances; only its value relative to the ids of
\* the operations still awaiting a response is observable
Tick ==
  /\ now < MaxNow
  /\ \E i \in 1..Len(listeners) : listeners[i].id = now
  /\ now' = now + 1
  /\ UNCHANGED <<sourceImage, loading, initResult, inits, worker, moduleWorker, adjustments,
                 qualityFactor, canvasSize, processingPromise, calls, runs, waiters,
                 microtasks, listeners, inbox, outbox, faults, workerFailed, otherWorker,
                 toolsVars, proVars, stageVars, serviceVars>>

ProcInit ==
  /\ sourceImage = FALSE
  /\ loading = FALSE
  /\ initResult = "none"
  /\ inits = 0
  /\ worker = FALSE
  /\ moduleWorker = "none"
  /\ adjustments = defaultAdjustments
  /\ qualityFactor = 100
  /\ canvasSize = 0
  /\ processingPromise = NoCall
  /\ calls = [c \in Calls |-> NewCall]
  /\ runs = [c \in Calls |-> NewRun]
  /\ waiters = [c \in Calls |-> <<>>]
  /\ microtasks = <<>>
  /\ listeners = <<>>
  /\ inbox = <<>>
  /\ outbox = <<>>
  /\ now = 0
  /\ faults = 0
  /\ workerFailed = FALSE
  /\ otherWorker = FALSE

(***************************************************************************)
(* Shared by the two editors.                                              *)
(***************************************************************************)
HistoryCap == 10

\* a value read from a JavaScript array: an entry, or undefined
Undefined == [defined |-> FALSE, url |-> 0]
Entry(url) == [defined |-> TRUE, url |-> url]
At(array, i) == IF i \in 0..(Len(array) - 1) THEN Entry(array[i + 1]) ELSE Undefined

\* array.slice(0, end) for end >= 0, and array.slice(-n)
SliceTo(array, end) == SubSeq(array, 1, IF end < Len(array) THEN end ELSE Len(array))
SliceLast(array, n) == SubSeq(array, Len(array) - n + 1, Len(array))

\* the % operator of JavaScript: the result has the sign of the dividend
JsRem(a, b) == IF a >= 0 THEN a % b ELSE 0 - ((0 - a) % b)

OriginalImage == 0
Brightnesses == {100, 150}
Filters == {"none", "sepia"}
Axes == {"x", "y"}
Degrees == {90, 0 - 90}

\* a rotate update that wraps at three quarter turns instead of four
RotateByThreeQuarters(prev, degrees) == JsRem(prev + degrees, 270)

\* the update both editors pass to setRotation: (prev + degrees) % 360
RotateBy(prev, degrees) == JsRem(prev + degrees, 360)

(***************************************************************************)
(* ImageEditorTools (src/components/image-editor-tools.tsx).               *)
(***************************************************************************)
\* brightness stands for the three sliders, which are handled alike
defaultControls == [brightness |-> 100, filter |-> "none"]

NoTimer == [armed |-> FALSE, historyIndex |-> 0]
NotApplying == [active |-> FALSE, historyIndex |-> 0]

toolsFrame == <<procVars, proVars, stageVars, serviceVars>>

\* the effect on [brightness, ..., isRealtime]: the cleanup of the previous run
\* clears its timer, then a new 300 ms timer is queued; the timer's callback
\* closes over the applyChanges (and so the historyIndex) of this render
controlsEffect(realtime) ==
  IF isFirstRender
  THEN /\ isFirstRender' = FALSE
       /\ queuedUpdate' = NoTimer
  ELSE /\ isFirstRender' = isFirstRender
       /\ queuedUpdate' = IF pendingOp \/ ~originalImage \/ ~realtime
                          THEN NoTimer
                          ELSE [armed |-> TRUE, historyIndex |-> historyIndex]

\* a control changes state: re-render, and the effect runs when a dependency changed
setControls(newControls) ==
  /\ ~pendingOp
  /\ controls' = newControls
  /\ IF newControls # controls
     THEN controlsEffect(isRealtime)
     ELSE UNCHANGED <<isFirstRender, queuedUpdate>>
  /\ UNCHANGED <<originalImage, history, historyIndex, isRealtime, pendingOp, applying,
                 results, imageChange>>
  /\ UNCHANGED toolsFrame

\* img.onload of the load effect; when the reset changes a control the effect
\* runs once more and consumes isFirstRenderRef
imgOnload ==
  /\ ~originalImage
  /\ originalImage' = TRUE
  /\ history' = <<OriginalImage>>
  /\ historyIndex' = 0
  /\ controls' = defaultControls
  /\ isFirstRender' = (controls = defaultControls)
  /\ queuedUpdate' = IF controls # defaultControls THEN NoTimer ELSE queuedUpdate
  /\ UNCHANGED <<isRealtime, pendingOp, applying, results, imageChange>>
  /\ UNCHANGED toolsFrame

setBrightness(value) ==
  /\ value # controls.brightness
  /\ setControls([controls EXCEPT !.brightness = value])

setFilter(filter) == setControls([controls EXCEPT !.filter = filter])

handleReset == setControls(defaultControls)

setIsRealtime ==
  /\ isRealtime' = ~isRealtime
  /\ controlsEffect(~isRealtime)
  /\ UNCHANGED <<originalImage, history, historyIndex, controls, pendingOp, applying,
                 results, imageChange>>
  /\ UNCHANGED toolsFrame

\* applyChanges up to its first await, called from a render whose historyIndex is idx
applyChangesStart(idx) ==
  /\ IF ~originalImage \/ pendingOp
     THEN UNCHANGED <<pendingOp, applying>>
     ELSE /\ pendingOp' = TRUE
          /\ applying' = [active |-> TRUE, historyIndex |-> idx]
  /\ UNCHANGED <<originalImage, history, historyIndex, controls, isRealtime,
                 isFirstRender, results, imageChange>>
  /\ UNCHANGED toolsFrame

\* the "Apply Changes" button, rendered when isRealtime is off
applyChangesClick ==
  /\ ~isRealtime
  /\ ~pendingOp
  /\ queuedUpdate' = queuedUpdate
  /\ applyChangesStart(historyIndex)

\* the queued 300 ms timer fires
queuedUpdateFires ==
  /\ queuedUpdate.armed
  /\ queuedUpdate' = NoTimer
  /\ applyChangesStart(queuedUpdate.historyIndex)

\* the history update of applyChanges (lines 172-179)
applyChangesHistory(prev, idx, newImageDataUrl) ==
  LET newHistory == Append(SliceTo(prev, idx + 1), newImageDataUrl)
  IN IF Len(newHistory) > HistoryCap THEN SliceLast(newHistory, HistoryCap) ELSE newHistory

\* applyChanges after its awaits: no result (return), or the history update
applyChanges(rendered) ==
  /\ applying.active
  /\ IF rendered
     THEN /\ results' = results + 1
          /\ history' = applyChangesHistory(history, applying.historyIndex, results + 1)
          /\ historyIndex' = historyIndex + 1
          /\ imageChange' = Entry(results + 1)
     ELSE UNCHANGED <<results, history, historyIndex, imageChange>>
  /\ pendingOp' = FALSE
  /\ applying' = NotApplying
  /\ UNCHANGED <<originalImage, controls, isRealtime, isFirstRender, queuedUpdate>>
  /\ UNCHANGED toolsFrame

\* handleUndo; its button is disabled when historyIndex <= 0 or while processing
toolsHandleUndo ==
  /\ ~pendingOp
  /\ historyIndex > 0
  /\ historyIndex' = historyIndex - 1
  /\ imageChange' = At(history, historyIndex - 1)
  /\ UNCHANGED <<originalImage, history, controls, isRealtime, isFirstRender, pendingOp,
                 queuedUpdate, applying, results>>
  /\ UNCHANGED toolsFrame

\* handleRedo; its button is disabled at the last entry or while processing
toolsHandleRedo ==
  /\ ~pendingOp
  /\ historyIndex < Len(history) - 1
  /\ historyIndex' = historyIndex + 1
  /\ imageChange' = At(history, historyIndex + 1)
  /\ UNCHANGED <<originalImage, history, controls, isRealtime, isFirstRender, pendingOp,
                 queuedUpdate, applying, results>>
  /\ UNCHANGED toolsFrame

\* how the pass that applyChanges awaits can end: the filters are applied; no
\* 2d context is to be had; applyWithCSSFilters throws; the promise of
\* applyWithPixelManipulation rejects
Passes == {"filtered", "noContext", "cssThrows", "pixelsReject"}

\* applyImageFilters: the data URL of the filtered canvas, null, the data URL
\* of the unfiltered canvas from its catch block, or a rejection, which its
\* try does not catch because the promise is returned without await
applyImageFilters(pass) ==
  CASE pass = "filtered" -> "filtered url"
    [] pass = "noContext" -> "null"
    [] pass = "cssThrows" -> "unfiltered url"
    [] OTHER -> "rejects"

\* applyChanges after the pass: 'if (!result) return', a rejection and the
\* history update all end in the finally block
applyChangesAfter(pass) ==
  applyChanges(applyImageFilters(pass) \in {"filtered url", "unfiltered url"})

ToolsInit ==
  /\ originalImage = FALSE
  /\ history = <<>>
  /\ historyIndex = 0 - 1
  /\ controls = defaultControls
  /\ isRealtime = FALSE
  /\ isFirstRender = TRUE
  /\ pendingOp = FALSE
  /\ queuedUpdate = NoTimer
  /\ applying = NotApplying
  /\ results = 0
  /\ imageChange = Undefined

ToolsRoom == results + (IF applying.active THEN 1 ELSE 0) < MaxResults

ToolsNext ==
  \/ imgOnload
  \/ \E value \in Brightnesses : setBrightness(value)
  \/ \E filter \in Filters : setFilter(filter)
  \/ handleReset
  \/ setIsRealtime
  \/ ToolsRoom /\ applyChangesClick
  \/ ToolsRoom /\ queuedUpdateFires
  \/ \E pass \in Passes : applyChangesAfter(pass)
  \/ toolsHandleUndo
  \/ toolsHandleRedo

(***************************************************************************)
(* ProImageEditor (src/components/pro-image-editor.tsx).                   *)
(***************************************************************************)
DebounceWait == 300
TickMs == DebounceWait \div 3

defaultEdits == [brightness |-> 100, filter |-> "none", rotation |-> 0,
                 isFlippedX |-> FALSE, isFlippedY |-> FALSE]

Idle == [armed |-> FALSE, left |-> 0]
Armed == [armed |-> TRUE, left |-> DebounceWait]

proFrame == <<procVars, toolsVars, stageVars, serviceVars>>

\* saveToHistory (lines 349-363) on the history h and cursor i, committing dataUrl
saveToHistory(h, i, dataUrl) ==
  LET kept == IF i < Len(h) - 1 THEN SliceTo(h, i + 1) ELSE h
  IN [history |-> Append(kept, dataUrl), index |-> Len(kept)]

\* the identity of saveToHistory changes with these states (useCallback deps)
SaveDeps(e, loaded) == <<e.brightness, e.filter, e.rotation, e.isFlippedX, e.isFlippedY, loaded>>

\* how many saves are made or scheduled, and whether an edit fits under a limit
Scheduled == saves + Len(frames) + (IF debounce.armed THEN 1 ELSE 0)
Room(limit) == Scheduled + 2 <= limit /\ Len(frames) < MaxFrames

\* the image-load effect (lines 366-393) re-runs when saveToHistory changed;
\* the image being complete it calls handleImageLoad, which requests a frame
loadEffect(newEdits, loaded, handler) ==
  frames' = IF SaveDeps(newEdits, loaded) # SaveDeps(edits, isImageLoaded) /\ loaded
            THEN Append(frames, handler) ELSE frames

\* the undo and redo buttons as rendered from the refs
renderButtons(index, length) ==
  /\ undoDisabled' = (index <= 0)
  /\ redoDisabled' = (index >= length - 1)

\* the img element's onLoad
onLoad ==
  /\ ~isImageLoaded
  /\ isImageLoaded' = TRUE
  /\ loadEffect(edits, TRUE, "onLoad")
  /\ renderButtons(historyIndexRef, Len(historyRef))
  /\ UNCHANGED <<historyRef, historyIndexRef, edits, isSliding, debounce, saves, shown>>
  /\ UNCHANGED proFrame

handleSliderChange(value) ==
  /\ value # edits.brightness
  /\ edits' = [edits EXCEPT !.brightness = value]
  /\ isSliding' = TRUE
  /\ loadEffect(edits', isImageLoaded, "slider")
  /\ debounce' = Armed
  /\ renderButtons(historyIndexRef, Len(historyRef))
  /\ UNCHANGED <<isImageLoaded, historyRef, historyIndexRef, saves, shown>>
  /\ UNCHANGED proFrame

\* rotate and flip: new state, and the debounced save
discreteEdit(newEdits, handler) ==
  /\ edits' = newEdits
  /\ loadEffect(newEdits, isImageLoaded, handler)
  /\ debounce' = Armed
  /\ renderButtons(historyIndexRef, Len(historyRef))
  /\ UNCHANGED <<isImageLoaded, historyRef, historyIndexRef, isSliding, saves, shown>>
  /\ UNCHANGED proFrame

handleRotateBy(degrees) ==
  discreteEdit([edits EXCEPT !.rotation = RotateBy(@, degrees)], "rotate")

handleFlip(axis) ==
  discreteEdit(IF axis = "x" THEN [edits EXCEPT !.isFlippedX = ~@]
                             ELSE [edits EXCEPT !.isFlippedY = ~@], "flip")

\* handleFilterChange: returns early while the image is not loaded, otherwise
\* calls saveToHistory directly
handleFilterChange(filterId) ==
  /\ edits' = [edits EXCEPT !.filter = filterId]
  /\ IF isImageLoaded
     THEN LET saved == saveToHistory(historyRef, historyIndexRef, saves + 1)
          IN /\ historyRef' = saved.history
             /\ historyIndexRef' = saved.index
             /\ saves' = saves + 1
     ELSE UNCHANGED <<historyRef, historyIndexRef, saves>>
  /\ loadEffect(edits', isImageLoaded, "filter")
  /\ IF filterId # edits.filter
     THEN renderButtons(historyIndexRef', Len(historyRef'))
     ELSE UNCHANGED <<undoDisabled, redoDisabled>>
  /\ UNCHANGED <<isImageLoaded, isSliding, debounce, shown>>
  /\ UNCHANGED proFrame

\* handleUndo; the button is clickable as it was last rendered
handleUndo ==
  /\ ~undoDisabled
  /\ IF historyIndexRef > 0
     THEN /\ historyIndexRef' = historyIndexRef - 1
          /\ shown' = At(historyRef, historyIndexRef - 1)
     ELSE UNCHANGED <<historyIndexRef, shown>>
  /\ UNCHANGED <<isImageLoaded, historyRef, edits, isSliding, undoDisabled, redoDisabled,
                 debounce, frames, saves>>
  /\ UNCHANGED proFrame

handleRedo ==
  /\ ~redoDisabled
  /\ IF historyIndexRef < Len(historyRef) - 1
     THEN /\ historyIndexRef' = historyIndexRef + 1
          /\ shown' = At(historyRef, historyIndexRef + 1)
     ELSE UNCHANGED <<historyIndexRef, shown>>
  /\ UNCHANGED <<isImageLoaded, historyRef, edits, isSliding, undoDisabled, redoDisabled,
                 debounce, frames, saves>>
  /\ UNCHANGED proFrame

\* the frame requested by handleImageLoad: saveToHistory and updatePreview
handleImageLoadFrame ==
  /\ frames # <<>>
  /\ frames' = Tail(frames)
  /\ LET saved == saveToHistory(historyRef, historyIndexRef, saves + 1)
     IN /\ historyRef' = saved.history
        /\ historyIndexRef' = saved.index
  /\ saves' = saves + 1
  /\ UNCHANGED <<isImageLoaded, edits, isSliding, undoDisabled, redoDisabled, debounce, shown>>
  /\ UNCHANGED proFrame

\* debouncedSaveToHistory fires 300 ms after its last call
debouncedSaveToHistory ==
  /\ debounce.armed
  /\ debounce.left = 0
  /\ debounce' = Idle
  /\ LET saved == saveToHistory(historyRef, historyIndexRef, saves + 1)
     IN /\ historyRef' = saved.history
        /\ historyIndexRef' = saved.index
        /\ IF isSliding
           THEN renderButtons(saved.index, Len(saved.history))
           ELSE UNCHANGED <<undoDisabled, redoDisabled>>
  /\ saves' = saves + 1
  /\ isSliding' = FALSE
  /\ UNCHANGED <<isImageLoaded, edits, frames, shown>>
  /\ UNCHANGED proFrame

\* time passes; pending frames and a due timer run first
proTick ==
  /\ debounce.armed
  /\ debounce.left > 0
  /\ frames = <<>>
  /\ debounce' = [debounce EXCEPT !.left = @ - TickMs]
  /\ UNCHANGED <<isImageLoaded, historyRef, historyIndexRef, edits, isSliding,
                 undoDisabled, redoDisabled, frames, saves, shown>>
  /\ UNCHANGED proFrame

ProInit ==
  /\ isImageLoaded = FALSE
  /\ historyRef = <<>>
  /\ historyIndexRef = 0 - 1
  /\ edits = defaultEdits
  /\ isSliding = FALSE
  /\ undoDisabled = TRUE
  /\ redoDisabled = TRUE
  /\ debounce = Idle
  /\ frames = <<>>
  /\ saves = 0
  /\ shown = Undefined

ProNext ==
  \/ Room(MaxSaves) /\ onLoad
  \/ Room(MaxSaves) /\ \E value \in Brightnesses : handleSliderChange(value)
  \/ Room(MaxSaves) /\ \E degrees \in Degrees : handleRotateBy(degrees)
  \/ Room(MaxSaves) /\ \E axis \in Axes : handleFlip(axis)
  \/ Room(MaxSaves) /\ \E filterId \in Filters : handleFilterChange(filterId)
  \/ handleUndo
  \/ handleRedo
  \/ handleImageLoadFrame
  \/ debouncedSaveToHistory
  \/ proTick

\* the slider alone, far enough to fill the history beyond its capacity
ProCapacityNext ==
  \/ Room(HistoryCap + MaxOverflow) /\ onLoad
  \/ Room(HistoryCap + MaxOverflow) /\ \E value \in Brightnesses : handleSliderChange(value)
  \/ handleImageLoadFrame
  \/ debouncedSaveToHistory
  \/ proTick

\* one initialize, then calls in any interleaving with the worker
ProcNext ==
  \/ \E p \in Partials : updateAdjustments(p)
  \/ resetAdjustments
  \/ generateFinalImage
  \/ inits < 1 /\ \E q \in PreviewQualities, created \in BOOLEAN : initialize(q, created)
  \/ \E decoded \in BOOLEAN : initializeLoaded(decoded)
  \/ \E success \in BOOLEAN : WorkerOnMessage(success)
  \/ handleMessage
  \/ RunMicrotask
  \/ Tick

\* the whole lifecycle: initialize, calls, destroy, initialize again
CallsMade == Cardinality({c \in Calls : calls[c].kind # "none"})
LifecycleRoom == CallsMade < MaxLifecycleCalls

LifecycleNext ==
  \/ LifecycleRoom /\ \E p \in Partials : updateAdjustments(p)
  \/ LifecycleRoom /\ resetAdjustments
  \/ LifecycleRoom /\ generateFinalImage
  \/ inits < MaxInits /\ \E q \in PreviewQualities, created \in BOOLEAN : initialize(q, created)
  \/ \E decoded \in BOOLEAN : initializeLoaded(decoded)
  \/ destroy
  \/ WorkerOnMessage(TRUE)
  \/ handleMessage
  \/ RunMicrotask

(***************************************************************************)
(* uploadImageToGoogleDrive (src/unnamed/part_007).  The callers pass no   *)
(* retryCount, so a call starts at the default 1; the retry is the         *)
(* function calling itself with retryCount + 1 and returning that result.  *)
(***************************************************************************)
RetryLimit == 3
RetryDelay == 1000

serviceFrame == <<procVars, toolsVars, proVars, stageVars>>

\* how the upload request of one attempt can end: the file data is read; the
\* response has status 401; it has another error status; fetch rejects (the
\* network fails or the one-minute timeout aborts it); the body is not JSON
UploadOutcomes == {"ok", "unauthorized", "httpError", "fetchFails", "badJson"}

\* how the request for webViewLink and thumbnailLink can end
DetailsOutcomes == {"ok", "notOk", "fetchFails"}

NoError == [attempt |-> 0, kind |-> "none"]
NoUpload == [pc |-> "idle", retryCount |-> 0, attempts |-> <<>>, waits |-> <<>>,
             result |-> "pending", error |-> NoError, links |-> FALSE]

\* a retry test that lets one more attempt through
RetryOnceMore(retryCount) == retryCount < RetryLimit + 1

\* 'if (retryCount < 3)'
ShouldRetry(retryCount) == retryCount < RetryLimit

\* the call, up to the await of fetch
uploadImageToGoogleDrive(accessToken) ==
  /\ upload.pc = "idle"
  /\ upload' = IF ~accessToken
               THEN [upload EXCEPT !.pc = "done", !.result = "rejected",
                                   !.error = [attempt |-> 0, kind |-> "noToken"]]
               ELSE [upload EXCEPT !.pc = "fetching", !.retryCount = 1]
  /\ UNCHANGED <<storage, serviceFrame>>

\* the upload request settles: on to the details request, or into the catch
\* block, which retries or rethrows the error of this attempt
uploadSettles(outcome) ==
  /\ upload.pc = "fetching"
  /\ LET u == [upload EXCEPT !.attempts = Append(@, outcome)]
     IN upload' = IF outcome = "ok" THEN [u EXCEPT !.pc = "details"]
                  ELSE IF ShouldRetry(upload.retryCount) THEN [u EXCEPT !.pc = "waiting"]
                  ELSE [u EXCEPT !.pc = "done", !.result = "rejected",
                                 !.error = [attempt |-> Len(u.attempts), kind |-> outcome]]
  /\ UNCHANGED <<storage, serviceFrame>>

\* the timer of 'await new Promise(r => setTimeout(r, 1000))' fires and the
\* function calls itself
retryTimer ==
  /\ upload.pc = "waiting"
  /\ upload' = [upload EXCEPT !.pc = "fetching", !.retryCount = @ + 1,
                              !.waits = Append(@, RetryDelay)]
  /\ UNCHANGED <<storage, serviceFrame>>

\* the details request settles; its failure is not critical
detailsSettles(outcome) ==
  /\ upload.pc = "details"
  /\ upload' = [upload EXCEPT !.pc = "done", !.result = "resolved", !.links = (outcome = "ok")]
  /\ UNCHANGED <<storage, serviceFrame>>

UploadNext ==
  \/ \E accessToken \in BOOLEAN : uploadImageToGoogleDrive(accessToken)
  \/ \E outcome \in UploadOutcomes : uploadSettles(outcome)
  \/ retryTimer
  \/ \E outcome \in DetailsOutcomes : detailsSettles(outcome)

(***************************************************************************)
(* saveEditToLocalStorage (src/unnamed/part_004).  A saved edit is a       *)
(* record [id, size], size what its JSON takes of the storage; the list    *)
(* under the key savedEdits has the most recent edit first.  quota is the  *)
(* room localStorage has for the value of that key.                        *)
(***************************************************************************)
MAX_EDITS == 20
RecentEdits == 5

RECURSIVE SizeOf(_)
SizeOf(list) == IF list = <<>> THEN 0 ELSE Head(list).size + SizeOf(Tail(list))

\* localStorage.setItem(SAVED_EDITS_KEY, JSON.stringify(edits)): "ok", or the
\* name of the exception it throws, the stored value staying as it was
setItem(st, list) ==
  IF st.refuses THEN "SecurityError"
  ELSE IF SizeOf(list) > st.quota THEN "QuotaExceededError"
  ELSE "ok"

\* the five oldest entries of the list
Oldest(savedEdits) == SliceLast(savedEdits, RecentEdits)

\* savedEdits.slice(0, 5)
Recent(savedEdits) == SliceTo(savedEdits, RecentEdits)

Stored(st, list) == [st EXCEPT !.savedEdits = list, !.result = "resolved"]
Thrown(st) == [st EXCEPT !.result = "rejected"]

\* the last resort: JSON.stringify([newEdit]), outside any inner try
saveAlone(st, newEdit) ==
  IF setItem(st, <<newEdit>>) = "ok" THEN Stored(st, <<newEdit>>) ELSE Thrown(st)

\* saveEditToLocalStorage from getSavedEdits on (lines 72-113)
saveEdits(st, newEdit) ==
  LET added == <<newEdit>> \o st.savedEdits
      savedEdits == IF Len(added) > MAX_EDITS THEN SliceTo(added, MAX_EDITS) ELSE added
      storageError == setItem(st, savedEdits)
  IN  IF storageError = "ok" THEN Stored(st, savedEdits)
      ELSE IF storageError # "QuotaExceededError" THEN Thrown(st)
      ELSE IF Len(savedEdits) > RecentEdits
      THEN IF setItem(st, Recent(savedEdits)) = "ok"
           THEN Stored(st, Recent(savedEdits))
           ELSE saveAlone(st, newEdit)
      ELSE saveAlone(st, newEdit)

\* one call: compressImage twice, which may reject, then the save
saveEditToLocalStorage(newEdit, compressed) ==
  /\ storage.result = "pending"
  /\ LET st == [storage EXCEPT !.newEdit = newEdit, !.compressed = compressed]
     IN storage' = IF compressed THEN saveEdits(st, newEdit) ELSE Thrown(st)
  /\ UNCHANGED <<upload, serviceFrame>>

\* no call of saveEditToLocalStorage is modelled
NoSave == <<>>
NoEdit == [id |-> 0, size |-> 0]

\* the edits saved before the call: n edits of the same size, the most recent
\* first, and the edit to save
EditSizes == {1, 2}
NewEditSizes == {1, 3}
SavedCounts == {0, 2, 4, 5, 19, MAX_EDITS}
SavedBefore(n, size) == [i \in 1..n |-> [id |-> i, size |-> size]]
NewEdits == {[id |-> MAX_EDITS + 1, size |-> size] : size \in NewEditSizes}
Quotas == 0..((MAX_EDITS + 1) * 2 + 1)

StorageNext == \E newEdit \in NewEdits, compressed \in BOOLEAN : saveEditToLocalStorage(newEdit, compressed)

ServiceInit ==
  /\ upload = NoUpload
  /\ storage = NoSave

(***************************************************************************)
(* Specifications.                                                         *)
(***************************************************************************)
\* no stage function has been called and no rotate button pressed
NoData == <<>>
NoTurn == [start |-> 0, degrees |-> 0, rotation |-> 0, presses |-> 0]
StageInit ==
  /\ imageData = NoData
  /\ params = NoData
  /\ workerData = NoData
  /\ fallbackData = NoData
  /\ turn = NoTurn

Init == ProcInit /\ ToolsInit /\ ProInit /\ StageInit /\ ServiceInit

Spec == Init /\ [][ProcNext]_vars
SpecLifecycle == Init /\ [][LifecycleNext]_vars
SpecTools == Init /\ [][ToolsNext]_vars
SpecPro == Init /\ [][ProNext]_vars
SpecProCapacity == Init /\ [][ProCapacityNext]_vars

(***************************************************************************)
(* Claims about ImageProcessor, checked under Spec.                        *)
(***************************************************************************)
\* a _doProcessImage run that has started and whose promise has not settled
InProgress(c) == runs[c].stage \in {"basic", "color", "effects", "settling"}

\* calls c and d were both made while the same earlier run was in progress
QueuedTogether(c, d) ==
  c # d /\ calls[c].waitedOn # NoCall /\ calls[c].waitedOn = calls[d].waitedOn

\* C1: single-flight: at most one _doProcessImage run is in progress at any time
C1_SingleFlight == Cardinality({c \in Calls : InProgress(c)}) <= 1

\* C2: staleness cancellation: of the requests submitted before the executor
\* responds to any of them, only the most recent one delivers its result; the
\* result of an earlier one is never delivered to its caller
C2_StaleResultsDropped ==
  \A c, d \in Calls : QueuedTogether(c, d) /\ c < d => calls[c].result # "image"

\* C3: coalescing: updateAdjustments calls made while a run is in progress do
\* not each get their own run
C3_QueuedUpdatesCoalesce ==
  \A c, d \in Calls :
    QueuedTogether(c, d) /\ calls[c].kind = "update" /\ calls[d].kind = "update"
      => ~(runs[c].started /\ runs[d].started)

\* C4: permanent fallback: once a worker-path operation has failed, no further
\* message is posted to the worker
C4_PermanentFallback == [][workerFailed => Len(inbox') <= Len(inbox)]_vars

\* the stage whose output a worker stage takes as its input
PreviousStage(action) ==
  CASE action = "basic" -> "geometry" [] action = "color" -> "basic" [] OTHER -> "color"

\* C29: parameter snapshot per run: every stage of a run uses the adjustment
\* values that were current when the run started, whatever updateAdjustments
\* and resetAdjustments did while the run was waiting for the worker
C29_ParameterSnapshot ==
  \A c \in Calls : runs[c].started =>
    /\ runs[c].basic = runs[c].atStart.brightness
    /\ runs[c].stage # "basic" => runs[c].color = runs[c].atStart.saturation
    /\ runs[c].effects \in {"-", runs[c].atStart.filterType}

\* C24: stage order: every stage dispatched to the worker was handed exactly
\* the buffer that the previous stage of the same run produced: Tone the
\* output of Geometry, Colour the output of Tone, Effects the output of Colour
C24_StageOrder ==
  \A c \in Calls :
    runs[c].stage \in {"basic", "color", "effects"}
      => runs[c].sent = [from |-> c, stage |-> PreviousStage(runs[c].stage)]

\* C25: unique job ids and correlation: the operations awaiting a response of
\* the worker carry different ids, and a response settles only the operation
\* of the run whose message the worker answered
C25_UniqueJobIds ==
  /\ \A i, j \in 1..Len(listeners) : i # j => listeners[i].id # listeners[j].id
  /\ \A i \in 1..Len(microtasks) :
       microtasks[i].kind = "stage" => microtasks[i].buf.from = microtasks[i].call

(***************************************************************************)
(* Claims about the editors' histories.                                    *)
(***************************************************************************)
\* a step of ImageEditorTools that commits a rendered image
ToolsCommit == applyChanges(TRUE)

\* C5: truncation on commit: a commit made while the cursor is not at the last
\* entry keeps the entries up to the cursor, discards the ones after it, appends
\* the new entry and leaves the cursor on it (checked under SpecTools)
C5_TruncationOnCommit ==
  [][ToolsCommit /\ historyIndex < Len(history) - 1
       => /\ history' = Append(SliceTo(history, historyIndex + 1), results')
          /\ historyIndex' = Len(history') - 1]_vars

\* C6: capacity: no editor history ever has more than 10 entries (checked under
\* SpecProCapacity)
C6_HistoryCapacity == Len(history) <= HistoryCap /\ Len(historyRef) <= HistoryCap

\* C7: undo/redo bounds: an undo or redo that moves the cursor yields the entry
\* the cursor moves to (checked under SpecTools)
C7_UndoRedoYieldEntry ==
  [][toolsHandleUndo \/ toolsHandleRedo
       => historyIndex' \in 0..(Len(history) - 1) /\ imageChange'.defined]_vars

\* C8: debounced commit: while a burst of slider changes lasts, no entry is
\* committed on account of a slider change; the burst's entry is committed when
\* the debounce fires (checked under SpecPro)
C8_NoCommitDuringBurst ==
  [][isSliding /\ frames # <<>> /\ Head(frames) = "slider" => ~handleImageLoadFrame]_vars

\* C9: discrete actions commit immediately: handling a rotate, flip or filter
\* selection on a loaded image commits one entry (checked under SpecPro)
C9_DiscreteActionsCommit ==
  [][isImageLoaded /\ (\/ \E degrees \in Degrees : handleRotateBy(degrees)
                       \/ \E axis \in Axes : handleFlip(axis)
                       \/ \E filterId \in Filters : handleFilterChange(filterId))
       => saves' = saves + 1]_vars

\* the passes that fail with an exception while the adjustments are applied
FailedPasses == {"cssThrows", "pixelsReject"}

\* C22: a failed pass commits nothing: when the pass of applyChanges fails with
\* an exception, no history entry is appended, the cursor does not move and the
\* image last handed to onImageChange stays the current one (checked under
\* SpecTools)
C22_FailedPassCommitsNothing ==
  [][\A pass \in FailedPasses :
       applyChangesAfter(pass) => UNCHANGED <<history, historyIndex, imageChange>>]_vars

\* a step of ProImageEditor that commits an entry
ProCommit == saves' = saves + 1

\* C23: cursor after commit: immediately after a commit the cursor is the index
\* of the last entry of the history, and that entry is the one just committed
\* (checked under SpecTools)
C23_CursorAfterCommit ==
  [][/\ ToolsCommit => historyIndex' = Len(history') - 1 /\ At(history', historyIndex') = Entry(results')
     /\ ProCommit => /\ historyIndexRef' = Len(historyRef') - 1
                     /\ At(historyRef', historyIndexRef') = Entry(saves')]_vars

(***************************************************************************)
(* Claims about the processor's lifecycle, checked under SpecLifecycle.    *)
(***************************************************************************)
\* the processor holds no image: never initialized, or destroyed
Uninitialized == ~sourceImage /\ ~loading

\* call c is made in this step, by updateAdjustments or generateFinalImage
Made(c) == calls[c].kind = "none" /\ calls'[c].kind \in {"update", "final"}

C11_DestroyedIsTerminal == [][moduleWorker = "terminated" => ~sourceImage']_vars

\* every generateFinalImage call made so far has settled
FinalsSettled == \A c \in Calls : calls[c].kind = "final" => calls[c].pc = "done"

\* the quality factors initialize can choose
PreviewFactors == {QualityFactorOf(q) : q \in PreviewQualities}

\* C12: generateFinalImage restores the preview state: once every outstanding
\* generateFinalImage call has settled, the quality factor and the canvas size
\* are the preview values chosen at initialize
C12_FinalRestoresPreview ==
  sourceImage /\ FinalsSettled => qualityFactor \in PreviewFactors /\ canvasSize = qualityFactor

\* C13: quality tier per run: a run triggered by updateAdjustments or
\* resetAdjustments renders at the preview quality factor, a run triggered by
\* generateFinalImage at factor 1
C13_QualityTierPerRun ==
  \A c \in Calls : runs[c].started =>
    IF calls[c].kind = "final" THEN runs[c].qualityFactor = 100
    ELSE runs[c].qualityFactor \in PreviewFactors

\* the steps the main thread can take without a new call: a queued
\* continuation, or the delivery of an answer of the worker
MainThreadStep == RunMicrotask \/ handleMessage

\* C14: a hung worker blocks only the in-flight request: a request submitted
\* while an earlier run is in progress does not depend on the worker's answer,
\* i.e. the main thread can always take a step towards settling it
C14_LaterRequestNotBlocked ==
  \A d \in Calls : calls[d].pc = "await180" => ENABLED MainThreadStep

\* call c is made in this step, by updateAdjustments
Updated(c) == calls[c].kind = "none" /\ calls'[c].kind = "update"

OwnershipNext ==
  \/ LifecycleNext
  \/ \E created \in BOOLEAN : otherInitialize(created)
  \/ otherDestroy

SpecOwnership == Init /\ [][OwnershipNext]_vars

\* C26: worker ownership: destroy() on one instance does not terminate the
\* worker that another instance holds, and an instance that takes a worker in
\* its initialize takes a live one
C26_WorkerOwnership ==
  [][/\ otherDestroy /\ worker => moduleWorker' = "live"
     /\ ~worker /\ worker' => moduleWorker' = "live"]_vars

(***************************************************************************)
(* Settling of the requests, checked under SpecSettles: the lifecycle of   *)
(* two instances with the steps of the event loop, of the worker and of    *)
(* the image decoder taken whenever they stay possible.                    *)
(***************************************************************************)
SpecSettles ==
  /\ Init /\ [][OwnershipNext]_vars
  /\ WF_vars(RunMicrotask)
  /\ WF_vars(handleMessage)
  /\ WF_vars(WorkerOnMessage(TRUE))
  /\ WF_vars(\E decoded \in BOOLEAN : initializeLoaded(decoded))

\* C30: every request settles: the promise returned by each updateAdjustments,
\* resetAdjustments or generateFinalImage call eventually resolves or rejects
C30_EveryRequestSettles ==
  \A c \in Calls : (calls[c].kind # "none") ~> (calls[c].result # "pending")

(***************************************************************************)
(* The upload, checked under SpecUpload: every request is answered or      *)
(* fails, and the retry timer fires.                                       *)
(***************************************************************************)
SpecUpload == Init /\ [][UploadNext]_vars /\ WF_vars(UploadNext)

\* the last element of a non-empty sequence
Last(seq) == seq[Len(seq)]

\* C27: bounded upload retry: one call makes at most 3 upload attempts, waits
\* the same delay of 1 s before each retry, and terminates: it resolves with
\* the first attempt that succeeded, or rejects with the error of its last
\* attempt (or, without an access token, before any attempt)
C27_BoundedRetry ==
  /\ [](/\ Len(upload.attempts) <= RetryLimit
        /\ upload.pc # "idle" /\ upload.error.kind # "noToken"
             => Len(upload.waits) = upload.retryCount - 1
        /\ \A i \in 1..Len(upload.waits) : upload.waits[i] = RetryDelay
        /\ \A i \in 1..(Len(upload.attempts) - 1) : upload.attempts[i] # "ok"
        /\ upload.result = "resolved" => Last(upload.attempts) = "ok"
        /\ upload.result = "rejected" /\ upload.error.kind # "noToken"
             => /\ upload.error = [attempt |-> Len(upload.attempts),
                                   kind |-> Last(upload.attempts)]
                /\ Len(upload.attempts) = RetryLimit)
  /\ <>(upload.pc = "done")

\* the first two attempts failed, each was followed by the wait, and the third
\* attempt succeeded
C27_Witness ==
  /\ upload.pc = "done" /\ upload.result = "resolved"
  /\ Len(upload.attempts) = RetryLimit
  /\ upload.waits = <<RetryDelay, RetryDelay>>

(***************************************************************************)
(* Saving an edit, checked under SpecStorage.                              *)
(***************************************************************************)
StorageInit ==
  /\ ProcInit /\ ToolsInit /\ ProInit /\ StageInit
  /\ upload = NoUpload
  /\ \E n \in SavedCounts, size \in EditSizes, quota \in Quotas, refuses \in BOOLEAN :
       storage = [quota |-> quota, refuses |-> refuses,
                  savedEdits |-> SavedBefore(n, size), before |-> SavedBefore(n, size),
                  newEdit |-> NoEdit, compressed |-> FALSE, result |-> "pending"]

SpecStorage == StorageInit /\ [][StorageNext]_vars

\* the list the call first tries to write
FullList == SliceTo(<<storage.newEdit>> \o storage.before, MAX_EDITS)

\* C28: quota-overflow recovery: a call that returns successfully leaves the
\* new edit first in the stored list, followed by the most recent of the edits
\* stored before; older edits are evicted only when the full list does not fit,
\* only the new edit is kept only when the retry with the recent ones does not
\* fit either; a call that fails leaves the stored list as it was, and the
\* call fails only when not even the new edit alone can be written
C28_QuotaRecovery ==
  storage # NoSave /\ storage.result # "pending" =>
    LET kept == Len(storage.savedEdits)
    IN  /\ storage.result = "resolved" =>
              /\ Head(storage.savedEdits) = storage.newEdit
              /\ storage.savedEdits = SliceTo(FullList, kept)
              /\ kept \in {Len(FullList), RecentEdits, 1}
              /\ SizeOf(storage.savedEdits) <= storage.quota
              /\ kept < Len(FullList) => SizeOf(FullList) > storage.quota
              /\ kept < RecentEdits /\ RecentEdits < Len(FullList)
                   => SizeOf(SliceTo(FullList, RecentEdits)) > storage.quota
        /\ storage.result = "rejected" =>
              /\ storage.savedEdits = storage.before
              /\ \/ ~storage.compressed
                 \/ storage.refuses
                 \/ storage.newEdit.size > storage.quota

\* six edits or more were stored, the full list and the five most recent
\* entries exceeded the quota, and the new edit alone was written
C28_Witness ==
  /\ storage # NoSave /\ storage.result = "resolved"
  /\ Len(storage.before) > RecentEdits
  /\ storage.savedEdits = <<storage.newEdit>>

(***************************************************************************)
(* Out-of-range input to updateAdjustments, checked under SpecRanges.      *)
(***************************************************************************)
\* partial updates whose values lie outside the documented ranges
WildPartials == {[brightness |-> 250, saturation |-> 0 - 50]}

\* the lifecycle, with callers that also pass out-of-range values
RangesNext ==
  \/ LifecycleRoom /\ \E p \in WildPartials : updateAdjustments(p)
  \/ LifecycleNext

SpecRanges == Init /\ [][RangesNext]_vars

\* the documented range of brightness, contrast and saturation
PercentRange == 0..200

\* C17: parameter range invariant: the stored brightness and saturation always
\* lie inside their documented range 0..200; out-of-range input is clamped
C17_AdjustmentsInRange ==
  adjustments.brightness \in PercentRange /\ adjustments.saturation \in PercentRange

(***************************************************************************)
(* The rotate buttons and the Geometry step, checked under SpecRotation.   *)
(***************************************************************************)
MaxPresses == 4

\* the rotation values the rotate buttons can leave in the state
Rotations == {90 * k : k \in (0 - 3)..3}

\* cos and sin of a whole number of quarter turns, given in degrees
CosDeg(a) == CASE a % 360 = 0 -> 1 [] a % 360 = 90 -> 0 [] a % 360 = 180 -> 0 - 1 [] OTHER -> 0
SinDeg(a) == CASE a % 360 = 0 -> 0 [] a % 360 = 90 -> 1 [] a % 360 = 180 -> 0 [] OTHER -> 0 - 1

\* a 2 x 2 buffer: the pixel centres relative to the canvas centre, in half pixels
Positions == {<<x, y>> : x \in {0 - 1, 1}, y \in {0 - 1, 1}}
Buffers == [width : {2}, height : {2}, data : [Positions -> {0, 1}]]

\* where ctx.translate(w/2, h/2); ctx.rotate(rotation * PI / 180);
\* ctx.scale(flipX ? -1 : 1, flipY ? -1 : 1) sends the source pixel p
Transform(p, rotation, flipX, flipY) ==
  LET x == IF flipX THEN 0 - p[1] ELSE p[1]
      y == IF flipY THEN 0 - p[2] ELSE p[2]
  IN  <<x * CosDeg(rotation) - y * SinDeg(rotation), x * SinDeg(rotation) + y * CosDeg(rotation)>>

\* the Geometry step: the canvas keeps its size, the image is drawn transformed
Geometry(buffer, rotation, flipX, flipY) ==
  [buffer EXCEPT !.data =
     [q \in Positions |-> buffer.data[CHOOSE p \in Positions : Transform(p, rotation, flipX, flipY) = q]]]

\* a press of Rotate Left (degrees = -90) or Rotate Right (degrees = 90)
setRotation ==
  /\ turn.presses < MaxPresses
  /\ turn' = [turn EXCEPT !.rotation = RotateBy(@, turn.degrees), !.presses = @ + 1]
  /\ UNCHANGED <<imageData, params, workerData, fallbackData, procVars, toolsVars, proVars, serviceVars>>

RotationInit ==
  /\ ProcInit /\ ToolsInit /\ ProInit /\ ServiceInit
  /\ imageData \in Buffers
  /\ params \in [flipX : BOOLEAN, flipY : BOOLEAN]
  /\ workerData = NoData
  /\ fallbackData = NoData
  /\ \E r \in Rotations, d \in Degrees :
       turn = [start |-> r, degrees |-> d, rotation |-> r, presses |-> 0]

RotationNext == setRotation

SpecRotation == RotationInit /\ [][RotationNext]_vars

\* C19: rotation cycle: after four presses of the same rotate button the
\* Geometry step draws the buffer it drew before the first press, with the
\* same dimensions and the same pixel content
C19_RotationCycle ==
  turn.presses = 4 =>
    Geometry(imageData, turn.rotation, params.flipX, params.flipY)
      = Geometry(imageData, turn.start, params.flipX, params.flipY)

\* four presses left the rotation at another value than before, and the
\* buffer is one that a quarter turn changes
C19_Witness ==
  /\ turn.presses = 4
  /\ turn.rotation # turn.start
  /\ Geometry(imageData, 90, params.flipX, params.flipY) # Geometry(imageData, 0, params.flipX, params.flipY)

(***************************************************************************)
(* The stage functions of the worker (src/unnamed/part_006) and the pixel  *)
(* loop of the main-thread fallback.  JavaScript numbers are modelled as   *)
(* exact fractions [n, d] with d > 0, so the rounding error of double      *)
(* arithmetic is left out; [1, 0] and [0 - 1, 0] stand for Infinity and    *)
(* -Infinity, [0, 0] for NaN.  An ImageData is a record                    *)
(* [width, height, data], data the pixels [r, g, b] in row-major order;    *)
(* the alpha channel, which no stage changes on an opaque image, is left   *)
(* out.                                                                    *)
(***************************************************************************)
RECURSIVE Gcd(_, _)
Gcd(a, b) == IF b = 0 THEN a ELSE Gcd(b, a % b)
Abs(a) == IF a < 0 THEN 0 - a ELSE a

\* the number n / d in lowest terms
Q(n, d) ==
  LET g == Gcd(Abs(n), Abs(d))
  IN  IF d = 0 THEN [n |-> IF n > 0 THEN 1 ELSE IF n < 0 THEN 0 - 1 ELSE 0, d |-> 0]
      ELSE IF d < 0 THEN [n |-> (0 - n) \div g, d |-> (0 - d) \div g]
      ELSE [n |-> n \div g, d |-> d \div g]
Num(k) == [n |-> k, d |-> 1]
NaN == [n |-> 0, d |-> 0]
Infinity == [n |-> 1, d |-> 0]
IsFinite(a) == a.d # 0
IsNaN(a) == a = NaN

\* +, -, *, / of JavaScript numbers
Add(a, b) ==
  IF IsFinite(a) /\ IsFinite(b)
  THEN LET g == Gcd(a.d, b.d) IN Q(a.n * (b.d \div g) + b.n * (a.d \div g), (a.d \div g) * b.d)
  ELSE IF IsNaN(a) \/ IsNaN(b) THEN NaN
  ELSE IF IsFinite(a) THEN b
  ELSE IF IsFinite(b) \/ a = b THEN a
  ELSE NaN
Neg(a) == [n |-> 0 - a.n, d |-> a.d]
Sub(a, b) == Add(a, Neg(b))
Times(x, y) == [n |-> x.n * y.n, d |-> x.d * y.d]
Mul(a, b) ==
  IF IsFinite(a) /\ IsFinite(b)
  THEN Times(Q(a.n, b.d), Q(b.n, a.d))
  ELSE IF IsNaN(a) \/ IsNaN(b) \/ a.n = 0 \/ b.n = 0 THEN NaN
  ELSE IF (a.n > 0) = (b.n > 0) THEN Infinity ELSE Neg(Infinity)
Div(a, b) ==
  IF IsFinite(a) /\ IsFinite(b)
  THEN IF b.n # 0 THEN Mul(a, Q(b.d, b.n)) ELSE Q(a.n, 0)
  ELSE IF IsFinite(b) /\ ~IsNaN(a) THEN (IF b.n >= 0 THEN a ELSE Neg(a))
  ELSE IF IsFinite(a) /\ ~IsNaN(b) THEN Num(0)
  ELSE NaN

\* a < b; false when either is NaN
Less(a, b) ==
  IF IsNaN(a) \/ IsNaN(b) THEN FALSE
  ELSE IF IsFinite(a) /\ IsFinite(b)
       THEN LET g == Gcd(a.d, b.d) IN a.n * (b.d \div g) < b.n * (a.d \div g)
  ELSE IF IsFinite(a) THEN b.n > 0
  ELSE IF IsFinite(b) THEN a.n < 0
  ELSE a.n < b.n

\* Math.min and Math.max of two numbers: NaN if either is NaN
MathMin(a, b) == IF IsNaN(a) \/ IsNaN(b) THEN NaN ELSE IF Less(b, a) THEN b ELSE a
MathMax(a, b) == IF IsNaN(a) \/ IsNaN(b) THEN NaN ELSE IF Less(a, b) THEN b ELSE a

\* Math.floor, and Math.round, which rounds halves up: floor(x + 0.5)
MathFloor(a) == IF IsFinite(a) THEN Num(a.n \div a.d) ELSE a
MathRound(a) ==
  LET f == a.n \div a.d
      rest == a.n - f * a.d
  IN  IF IsFinite(a) THEN Num(IF rest >= a.d - rest THEN f + 1 ELSE f) ELSE a

\* a store that keeps whatever whole number it is given, in range or not
StoreUnclamped(a) == IF IsFinite(a) THEN a.n \div a.d ELSE 0

\* a store into a Uint8ClampedArray: NaN becomes 0, the value is clamped to
\* 0..255 and rounded to the nearest integer, halves to the even one
ToUint8Clamp(a) ==
  IF IsNaN(a) THEN 0
  ELSE IF ~IsFinite(a) THEN (IF a.n > 0 THEN 255 ELSE 0)
  ELSE LET f == a.n \div a.d
           rest == a.n - f * a.d
       IN  IF f < 0 THEN 0
           ELSE IF f >= 255 THEN 255
           ELSE IF rest < a.d - rest THEN f
           ELSE IF rest > a.d - rest THEN f + 1
           ELSE IF f % 2 = 0 THEN f ELSE f + 1

Pixel(r, g, b) == [r |-> r, g |-> g, b |-> b]

\* a step that runs under a condition: if (cond) x = Step(x)
When(cond, Step(_), x) == IF cond THEN Step(x) ELSE x

\* "Store results with clipping": Math.max(0, Math.min(255, Math.round(x))),
\* assigned to an element of a Uint8ClampedArray
StoreClipped(x) == ToUint8Clamp(MathMax(Num(0), MathMin(Num(255), MathRound(x))))

\* the three channels of a pixel stored with clipping, and stored as they are
ClipPixel(t) == Pixel(StoreClipped(t.r), StoreClipped(t.g), StoreClipped(t.b))
StorePixel(t) == Pixel(ToUint8Clamp(t.r), ToUint8Clamp(t.g), ToUint8Clamp(t.b))

\* the pixel at column x, row y, with the column and the row clamped to the image
PixelAt(data, width, height, x, y) ==
  LET cx == IF x < 0 THEN 0 ELSE IF x > width - 1 THEN width - 1 ELSE x
      cy == IF y < 0 THEN 0 ELSE IF y > height - 1 THEN height - 1 ELSE y
  IN  data[cy * width + cx + 1]

RECURSIVE SumFrom(_, _, _)
SumFrom(f, lo, hi) == IF lo > hi THEN 0 ELSE f[lo] + SumFrom(f, lo + 1, hi)

\* one pass of applyBoxBlur: every pixel becomes the mean of the 2 * radius + 1
\* samples along the row (horizontal) or the column, stored into the array
BlurPass(data, width, height, radius, horizontal) ==
  LET Sample(i, k) ==
        IF horizontal
        THEN PixelAt(data, width, height, ((i - 1) % width) + k, (i - 1) \div width)
        ELSE PixelAt(data, width, height, (i - 1) % width, ((i - 1) \div width) + k)
      count == 2 * radius + 1
      Mean(i, c) ==
        ToUint8Clamp(Q(SumFrom([k \in (0 - radius)..radius |-> Sample(i, k)[c]], 0 - radius, radius),
                       count))
  IN  [i \in 1..Len(data) |-> Pixel(Mean(i, "r"), Mean(i, "g"), Mean(i, "b"))]

applyBoxBlur(data, width, height, radius) ==
  BlurPass(BlurPass(data, width, height, radius, TRUE), width, height, radius, FALSE)

\* applyUnsharpMask: original + amount * (original - blurred), clipped
applyUnsharpMask(image, amount) ==
  LET blurredData == applyBoxBlur(image.data, image.width, image.height, 1)
      Sharp(i, c) ==
        LET orig == image.data[i][c]
            diff == orig - blurredData[i][c]
        IN  ToUint8Clamp(MathMax(Num(0), MathMin(Num(255), Add(Num(orig), Mul(amount, Num(diff))))))
  IN  [image EXCEPT !.data =
         [i \in 1..Len(image.data) |-> Pixel(Sharp(i, "r"), Sharp(i, "g"), Sharp(i, "b"))]]

\* (259 * (contrast + 255)) / (255 * (259 - contrast))
ContrastFactor(contrast) == Q(259 * (contrast + 255), 255 * (259 - contrast))

\* brightness, contrast and clarity of one pixel, before the store:
\* shared by applyBasicAdjustments and processImageOnMainThread
TonePixel(px, brightness, contrast, clarity) ==
  LET Lit(c) == Mul(Num(px[c]), Q(brightness, 100))
      Contrasted(c) == Add(Mul(ContrastFactor(contrast), Sub(Lit(c), Num(128))), Num(128))
      avgColor == Div(Add(Add(Contrasted("r"), Contrasted("g")), Contrasted("b")), Num(3))
      Clear(c) ==
        IF clarity # 0
        THEN Add(Contrasted(c), Mul(Sub(Contrasted(c), avgColor), Q(clarity, 100)))
        ELSE Contrasted(c)
  IN  [c \in {"r", "g", "b"} |-> Clear(c)]

\* the Tone stage of the worker
applyBasicAdjustments(image, p) ==
  When(p.sharpen > 0, LAMBDA result : applyUnsharpMask(result, Q(p.sharpen, 100)),
       [image EXCEPT !.data =
          [i \in 1..Len(image.data) |->
             ClipPixel(TonePixel(image.data[i], p.brightness, p.contrast, p.clarity))]])

\* rgbToHsl from the largest and the smallest channel on: <<h, s, l>>
HslOf(r, g, b, max, min) ==
  LET l == Div(Add(max, min), Num(2))
      d == Sub(max, min)
      s == IF Less(Q(1, 2), l) THEN Div(d, Sub(Sub(Num(2), max), min)) ELSE Div(d, Add(max, min))
      h == IF max = r THEN Add(Div(Sub(g, b), d), IF Less(g, b) THEN Num(6) ELSE Num(0))
           ELSE IF max = g THEN Add(Div(Sub(b, r), d), Num(2))
           ELSE Add(Div(Sub(r, g), d), Num(4))
  IN  IF max = min THEN <<Num(0), Num(0), l>> ELSE <<Div(h, Num(6)), s, l>>

\* rgbToHsl: <<h, s, l>>
rgbToHsl(r0, g0, b0) ==
  LET r == Div(r0, Num(255))
      g == Div(g0, Num(255))
      b == Div(b0, Num(255))
  IN  HslOf(r, g, b, MathMax(r, MathMax(g, b)), MathMin(r, MathMin(g, b)))

hue2rgb(p, q, t0) ==
  LET t1 == IF Less(t0, Num(0)) THEN Add(t0, Num(1)) ELSE t0
      t == IF Less(Num(1), t1) THEN Sub(t1, Num(1)) ELSE t1
  IN  IF Less(t, Q(1, 6)) THEN Add(p, Mul(Mul(Sub(q, p), Num(6)), t))
      ELSE IF Less(t, Q(1, 2)) THEN q
      ELSE IF Less(t, Q(2, 3)) THEN Add(p, Mul(Mul(Sub(q, p), Sub(Q(2, 3), t)), Num(6)))
      ELSE p

\* hslToRgb: r, g and b, not yet rounded
hslToRgb(h, s, l) ==
  LET q == IF Less(l, Q(1, 2)) THEN Mul(l, Add(Num(1), s)) ELSE Sub(Add(l, s), Mul(l, s))
      p == Sub(Mul(Num(2), l), q)
  IN  IF s = Num(0) THEN Pixel(Mul(l, Num(255)), Mul(l, Num(255)), Mul(l, Num(255)))
      ELSE Pixel(Mul(hue2rgb(p, q, Add(h, Q(1, 3))), Num(255)),
                 Mul(hue2rgb(p, q, h), Num(255)),
                 Mul(hue2rgb(p, q, Sub(h, Q(1, 3))), Num(255)))

\* x % 1 for x >= 0
Mod1(x) == Sub(x, MathFloor(x))

\* the temperature step: <<r, g, b>> shifted towards yellow or blue
Tempered(px, p) ==
  LET tempAdjust == Q(p.temperature, 100)
      warmer == p.temperature > 0
  IN  IF p.temperature = 0 THEN <<Num(px.r), Num(px.g), Num(px.b)>>
      ELSE <<Add(Num(px.r), Mul(tempAdjust, Num(IF warmer THEN 25 ELSE 15))),
             Add(Num(px.g), Mul(tempAdjust, Num(IF warmer THEN 15 ELSE 10))),
             Sub(Num(px.b), Mul(tempAdjust, Num(25)))>>

\* hue, saturation and vibrance applied to <<h, s, l>>, and back to r, g, b
HslAdjusted(hsl, p) ==
  LET h == IF p.hue # 0 THEN Mod1(Add(hsl[1], Q(p.hue, 360))) ELSE hsl[1]
      sat == IF p.saturation # 100 THEN Mul(hsl[2], Q(p.saturation, 100)) ELSE hsl[2]
      adjustmentFactor == Add(Num(1), Mul(Q(p.vibrance, 100), Sub(Num(1), sat)))
      s == IF p.vibrance # 0
           THEN MathMax(Num(0), MathMin(Num(1), Mul(sat, adjustmentFactor)))
           ELSE sat
  IN  hslToRgb(h, s, hsl[3])

\* temperature, hue, saturation and vibrance of one pixel, before the store
ColourPixel(px, p) ==
  LET rgb == Tempered(px, p) IN HslAdjusted(rgbToHsl(rgb[1], rgb[2], rgb[3]), p)

\* the Colour stage of the worker
applyColorAdjustments(image, p) ==
  [image EXCEPT !.data = [i \in 1..Len(image.data) |-> ClipPixel(ColourPixel(image.data[i], p))]]

\* a coefficient written with three decimals, as k / 1000
Milli(k) == Q(k, 1000)

\* k1 * r + k2 * g + k3 * b + offset, coefficients in thousandths
Mix(px, k1, k2, k3, offset) ==
  Add(Add(Add(Mul(Num(px.r), Milli(k1)), Mul(Num(px.g), Milli(k2))), Mul(Num(px.b), Milli(k3))),
      Num(offset))

\* the presets that applyFilterPreset (worker) and applyFilter (fallback) share
Gray(avg) == Pixel(avg, avg, avg)
grayscale(px) == Gray(ToUint8Clamp(Mix(px, 299, 587, 114, 0)))
sepia(px) ==
  Pixel(ToUint8Clamp(MathMin(Num(255), Mix(px, 393, 769, 189, 0))),
        ToUint8Clamp(MathMin(Num(255), Mix(px, 349, 686, 168, 0))),
        ToUint8Clamp(MathMin(Num(255), Mix(px, 272, 534, 131, 0))))
invert(px) == Pixel(255 - px.r, 255 - px.g, 255 - px.b)

\* the presets only the worker has
vintage(px) ==
  Pixel(ToUint8Clamp(MathMin(Num(255), Mix(px, 500, 400, 190, 40))),
        ToUint8Clamp(MathMin(Num(255), Mix(px, 300, 400, 160, 20))),
        ToUint8Clamp(MathMin(Num(255), Mix(px, 200, 300, 260, 0))))
cool(px) ==
  Pixel(ToUint8Clamp(MathMax(Num(0), Mul(Num(px.r), Milli(900)))),
        ToUint8Clamp(MathMax(Num(0), Num(px.g))),
        ToUint8Clamp(MathMin(Num(255), Mul(Num(px.b), Milli(1200)))))
warm(px) ==
  Pixel(ToUint8Clamp(MathMin(Num(255), Add(Mul(Num(px.r), Milli(1100)), Num(15)))),
        ToUint8Clamp(MathMin(Num(255), Mul(Num(px.g), Milli(1050)))),
        ToUint8Clamp(MathMax(Num(0), Mul(Num(px.b), Milli(900)))))
\* dramatic on <<h, s, l>>: saturation times 1.3, lightness pushed from the middle
Dramatised(hsl) ==
  LET s == MathMin(Num(1), Mul(hsl[2], Milli(1300)))
      l == IF Less(Q(1, 2), hsl[3])
           THEN Add(hsl[3], Mul(Sub(hsl[3], Q(1, 2)), Milli(200)))
           ELSE Sub(hsl[3], Mul(Sub(Q(1, 2), hsl[3]), Milli(200)))
  IN  hslToRgb(hsl[1], s, l)
dramatic(px) == StorePixel(Dramatised(rgbToHsl(Num(px.r), Num(px.g), Num(px.b))))
\* noir on the luma: darker below 127, lighter from 127 on
Pushed(luma) == IF Less(luma, Num(127)) THEN Mul(luma, Milli(800)) ELSE Mul(luma, Milli(1200))
noir(px) ==
  Gray(ToUint8Clamp(MathMax(Num(0), MathMin(Num(255), Pushed(Mix(px, 299, 587, 114, 0))))))
fade(px) ==
  Pixel(ToUint8Clamp(MathMin(Num(255), Add(Mul(Num(px.r), Milli(900)), Num(20)))),
        ToUint8Clamp(MathMin(Num(255), Add(Mul(Num(px.g), Milli(900)), Num(20)))),
        ToUint8Clamp(MathMin(Num(255), Add(Mul(Num(px.b), Milli(900)), Num(30)))))

\* applyFilterPreset of the worker: filters[filterType], if there is one
applyFilterPreset(image, filterType) ==
  LET Preset(px) ==
        CASE filterType = "grayscale" -> grayscale(px)
          [] filterType = "sepia" -> sepia(px)
          [] filterType = "invert" -> invert(px)
          [] filterType = "vintage" -> vintage(px)
          [] filterType = "cool" -> cool(px)
          [] filterType = "warm" -> warm(px)
          [] filterType = "dramatic" -> dramatic(px)
          [] filterType = "noir" -> noir(px)
          [] filterType = "fade" -> fade(px)
          [] OTHER -> px
  IN  [image EXCEPT !.data = [i \in 1..Len(image.data) |-> Preset(image.data[i])]]

\* p / q <= r / s for naturals with q, s > 0, without multiplying
RECURSIVE FracLeq(_, _, _, _)
FracLeq(p, q, r, s) ==
  IF p \div q # r \div s THEN p \div q < r \div s
  ELSE IF p % q = 0 THEN TRUE
  ELSE IF r % s = 0 THEN FALSE
  ELSE FracLeq(s, r % s, q, p % q)

\* a * b <= e * f for naturals
ProdLeq(a, b, e, f) ==
  IF a = 0 \/ b = 0 THEN TRUE
  ELSE IF e = 0 \/ f = 0 THEN FALSE
  ELSE FracLeq(a, e, f, b)

\* the pixel at column x, row y of a width x height image lies at the
\* normalised distance sqrt(DistNum) / DistDen from the centre, where
\* dx = (x - width / 2) / (width / 2) and dy = (y - height / 2) / (height / 2)
DistNum(width, height, x, y) ==
  (2 * x - width) * (2 * x - width) * height * height
    + (2 * y - height) * (2 * y - height) * width * width
DistDen(width, height) == width * height

\* a vignette that darkens whatever the distance
BeyondNothing(width, height, x, y) == TRUE

\* the test of applyVignetteEffect: distance > 0.5
BeyondHalf(width, height, x, y) ==
  4 * DistNum(width, height, x, y) > DistDen(width, height) * DistDen(width, height)

\* Math.floor(v * factor), factor = 1 - Math.min(1, amount * ((distance - 0.5) * 2)^2)
\* with amount = vignette / 100 and distance = sqrt(n) / m:
\* amount * ((distance - 0.5) * 2)^2 = vignette * (4n + m^2 - 4m sqrt(n)) / (100 m^2)
Darken(v, vignette, n, m) ==
  LET T == 100 * m * m
      X == vignette * (4 * n + m * m) - T
      c == 4 * vignette * m
      black == X >= 0 /\ ProdLeq(c * n, c, X, X)
      \* R <= v * factor, that is R * T + v * X <= v * c * sqrt(n)
      AtMost(R) ==
        LET L == R * T + v * X IN L <= 0 \/ ProdLeq(L, L, v * c * n, v * c)
  IN  IF black THEN 0
      ELSE CHOOSE R \in 0..v : AtMost(R) /\ (R = v \/ ~AtMost(R + 1))

\* applyVignetteEffect (the worker's), vignette in percent
applyVignetteEffect(image, vignette) ==
  LET w == image.width
      h == image.height
      Shade(i, c) ==
        LET x == (i - 1) % w
            y == (i - 1) \div w
        IN  IF BeyondHalf(w, h, x, y)
            THEN Darken(image.data[i][c], vignette, DistNum(w, h, x, y), DistDen(w, h))
            ELSE image.data[i][c]
  IN  [image EXCEPT !.data =
         [i \in 1..Len(image.data) |-> Pixel(Shade(i, "r"), Shade(i, "g"), Shade(i, "b"))]]

\* one pixel's two calls of Math.random in applyNoiseEffect: the first decides
\* whether the pixel is skipped, the second is u in noise = (u - 0.5) * amount * 50
NoDraw == [skip |-> TRUE, u |-> Num(0)]

\* applyNoiseEffect, random[i] the draws for pixel i
applyNoiseEffect(image, amount, random) ==
  LET Noisy(i, c) ==
        LET noise == Mul(Mul(Sub(random[i].u, Q(1, 2)), amount), Num(50))
        IN  IF random[i].skip THEN image.data[i][c]
            ELSE ToUint8Clamp(MathMax(Num(0), MathMin(Num(255), Add(Num(image.data[i][c]), noise))))
  IN  [image EXCEPT !.data =
         [i \in 1..Len(image.data) |-> Pixel(Noisy(i, "r"), Noisy(i, "g"), Noisy(i, "b"))]]

\* the Effects stage of the worker: preset, vignette, noise and blur, in this order
applyEffects(image, p, random) ==
  When(p.blur > 0,
       LAMBDA noisy :
         [noisy EXCEPT !.data =
            applyBoxBlur(noisy.data, noisy.width, noisy.height,
                         IF p.blur \div 20 > 1 THEN p.blur \div 20 ELSE 1)],
  When(p.noise > 0, LAMBDA shaded : applyNoiseEffect(shaded, Q(p.noise, 100), random),
  When(p.vignette > 0, LAMBDA preset : applyVignetteEffect(preset, p.vignette),
  When(p.filterType # "none", LAMBDA original : applyFilterPreset(original, p.filterType),
       image))))

\* the worker path of _doProcessImage (lines 225-273): the three stages in order
WorkerStages(image, p, random) ==
  When(p.filterType # "none" \/ p.vignette > 0 \/ p.noise > 0 \/ p.blur > 0,
       LAMBDA coloured : applyEffects(coloured, p, random),
       applyColorAdjustments(applyBasicAdjustments(image, p), p))

\* applyFilter of the fallback: a switch with three cases
applyFilter(image, filterType) ==
  LET Preset(px) ==
        CASE filterType = "grayscale" -> grayscale(px)
          [] filterType = "sepia" -> sepia(px)
          [] filterType = "invert" -> invert(px)
          [] OTHER -> px
  IN  [image EXCEPT !.data = [i \in 1..Len(image.data) |-> Preset(image.data[i])]]

\* the saturation lines of the fallback's pixel loop
Saturated(t, p) ==
  LET gray == Add(Add(Mul(Q(2989, 10000), t.r), Mul(Q(5870, 10000), t.g)), Mul(Q(1140, 10000), t.b))
      Mixed(x) == Add(gray, Mul(Q(p.saturation, 100), Sub(x, gray)))
  IN  IF p.saturation # 100 THEN Pixel(Mixed(t.r), Mixed(t.g), Mixed(t.b)) ELSE t

\* processImageOnMainThread (lines 311-356) for vignette = 0: the pixel loop
\* with brightness, contrast, clarity and saturation, then applyFilter
MainThreadStages(image, p) ==
  When(p.filterType # "none", LAMBDA processed : applyFilter(processed, p.filterType),
       [image EXCEPT !.data =
          [i \in 1..Len(image.data) |->
             ClipPixel(Saturated(TonePixel(image.data[i], p.brightness, p.contrast, p.clarity), p))]])

(***************************************************************************)
(* The stage functions applied to drawn images and parameters:             *)
(* SpecStages runs the worker's stage sequence, SpecFallback runs it next  *)
(* to the main-thread fallback, SpecVignette runs the Effects stage alone. *)
(***************************************************************************)
\* defaultAdjustments, the fields the stage functions read
defaultParams ==
  [brightness |-> 100, contrast |-> 100, clarity |-> 0, sharpen |-> 0,
   saturation |-> 100, vibrance |-> 0, hue |-> 0, temperature |-> 0,
   blur |-> 0, vignette |-> 0, noise |-> 0, filterType |-> "none"]

MaxChannel == 255
MaxVignette == 100

Presets == {"grayscale", "sepia", "invert", "vintage", "cool", "warm", "dramatic", "noir", "fade"}

\* updates of one parameter each, to the ends and the middle of its range
OneParameter ==
  {[brightness |-> v] : v \in {0, 50, 200}} \cup {[contrast |-> v] : v \in {0, 200}}
    \cup {[clarity |-> v] : v \in {0 - 100, 100}} \cup {[sharpen |-> v] : v \in {50, 100}}
    \cup {[saturation |-> v] : v \in {0, 200}} \cup {[vibrance |-> v] : v \in {0 - 100, 100}}
    \cup {[hue |-> v] : v \in {90, 180, 360}} \cup {[temperature |-> v] : v \in {0 - 100, 100}}
    \cup {[blur |-> v] : v \in {20, 100}} \cup {[vignette |-> v] : v \in {50, 100}}
    \cup {[noise |-> v] : v \in {100}} \cup {[filterType |-> v] : v \in Presets}

\* updates of several parameters at once
ManyParameters ==
  {[brightness |-> 200, contrast |-> 200, clarity |-> 100, sharpen |-> 100],
   [brightness |-> 0, contrast |-> 0, clarity |-> 0 - 100],
   [saturation |-> 200, hue |-> 180, temperature |-> 100],
   [filterType |-> "dramatic", vignette |-> 100, noise |-> 100, blur |-> 100],
   [brightness |-> 200, saturation |-> 200, filterType |-> "warm", vignette |-> 50]}

StageParams == {Merge(defaultParams, u) : u \in OneParameter \cup ManyParameters} \cup {defaultParams}

\* opaque images: every gray level as a single pixel, and rows of two colours
GrayImages == {[width |-> 1, height |-> 1, data |-> <<Pixel(v, v, v)>>] : v \in 0..MaxChannel}
ColourPixels ==
  {Pixel(255, 0, 0), Pixel(10, 200, 250), Pixel(200, 100, 50), Pixel(0, 0, 0),
   Pixel(255, 255, 255), Pixel(128, 127, 0)}
RowImages == {[width |-> 2, height |-> 1, data |-> <<a, b>>] : a \in ColourPixels, b \in ColourPixels}
StageImages == GrayImages \cup RowImages

\* what Math.random returns for the pixels, where applyNoiseEffect runs
Draws(image, p) ==
  IF p.noise > 0
  THEN [1..Len(image.data) -> {NoDraw, [skip |-> FALSE, u |-> Num(0)], [skip |-> FALSE, u |-> Q(999, 1000)]}]
  ELSE {[i \in 1..Len(image.data) |-> NoDraw]}

\* the worker answers the three stage requests of _doProcessImage
workerStages ==
  /\ workerData = NoData
  /\ \E random \in Draws(imageData, params) : workerData' = WorkerStages(imageData, params, random)
  /\ UNCHANGED <<imageData, params, fallbackData, turn, procVars, toolsVars, proVars, serviceVars>>

\* processImageOnMainThread runs on the same canvas content
mainThreadStages ==
  /\ fallbackData = NoData
  /\ fallbackData' = MainThreadStages(imageData, params)
  /\ UNCHANGED <<imageData, params, workerData, turn, procVars, toolsVars, proVars, serviceVars>>

\* the worker answers one 'effects' request
effectsStage ==
  /\ workerData = NoData
  /\ \E random \in Draws(imageData, params) : workerData' = applyEffects(imageData, params, random)
  /\ UNCHANGED <<imageData, params, fallbackData, turn, procVars, toolsVars, proVars, serviceVars>>

\* rgbToHsl divides by 2 - max - min.  Where the largest and the smallest
\* channel handed to it add up to exactly 510 that is a division by zero here,
\* while in double arithmetic the rounding of max and min decides the quotient:
\* images that meet this point under the parameters are not drawn (without a
\* temperature shift the channels are bytes, and add up to 510 only when equal)
IllConditioned(image, p) ==
  p.temperature # 0 /\ \E i \in 1..Len(image.data) :
    LET rgb == Tempered(applyBasicAdjustments(image, p).data[i], p)
        max == MathMax(rgb[1], MathMax(rgb[2], rgb[3]))
        min == MathMin(rgb[1], MathMin(rgb[2], rgb[3]))
    IN  max # min /\ Add(max, min) = Num(510)

StagesInit ==
  /\ ProcInit /\ ToolsInit /\ ProInit /\ ServiceInit
  /\ imageData \in StageImages
  /\ params \in StageParams
  /\ ~IllConditioned(imageData, params)
  /\ workerData = NoData
  /\ fallbackData = NoData
  /\ turn = NoTurn

StagesNext == workerStages

SpecStages == StagesInit /\ [][StagesNext]_vars

\* the fallback is compared on parameters with vignette = 0, and with
\* saturation left at 100 unless contrast is 0
FallbackUpdates ==
  {[brightness |-> 50], [brightness |-> 200], [contrast |-> 0], [clarity |-> 100],
   [contrast |-> 0, saturation |-> 0], [contrast |-> 0, saturation |-> 200],
   [sharpen |-> 100], [vibrance |-> 100], [hue |-> 90], [temperature |-> 100],
   [blur |-> 20], [noise |-> 100]} \cup {[filterType |-> v] : v \in Presets}
FallbackParams == {Merge(defaultParams, u) : u \in FallbackUpdates} \cup {defaultParams}

FallbackInit ==
  /\ ProcInit /\ ToolsInit /\ ProInit /\ ServiceInit
  /\ imageData \in RowImages
  /\ params \in FallbackParams
  /\ ~IllConditioned(imageData, params)
  /\ workerData = NoData
  /\ fallbackData = NoData
  /\ turn = NoTurn

FallbackNext == workerStages \/ mainThreadStages

SpecFallback == FallbackInit /\ [][FallbackNext]_vars

\* images of one colour, of the sizes 1 x 1, 2 x 2, 4 x 2 and 4 x 4
VignettePixels ==
  {Pixel(255, 128, 1), Pixel(200, 100, 50), Pixel(254, 3, 0), Pixel(127, 10, 2)}
VignetteSizes == {<<1, 1>>, <<2, 2>>, <<4, 2>>, <<4, 4>>}
VignetteImages ==
  {[width |-> wh[1], height |-> wh[2], data |-> [i \in 1..(wh[1] * wh[2]) |-> px]] :
     wh \in VignetteSizes, px \in VignettePixels}

VignetteInit ==
  /\ ProcInit /\ ToolsInit /\ ProInit /\ ServiceInit
  /\ imageData \in VignetteImages
  /\ params \in {[defaultParams EXCEPT !.vignette = a] : a \in 0..MaxVignette}
  /\ workerData = NoData
  /\ fallbackData = NoData
  /\ turn = NoTurn

VignetteNext == effectsStage

SpecVignette == VignetteInit /\ [][VignetteNext]_vars

Channels == {"r", "g", "b"}

\* C15: worker/fallback equivalence: for the same image and the same
\* parameters the main-thread fallback produces the image that the worker's
\* stage functions produce
C15_WorkerFallbackEquivalence ==
  workerData # NoData /\ fallbackData # NoData => fallbackData = workerData

\* C16: identity under defaults: with defaultAdjustments every output channel
\* of the stage sequence is within 1 of the input channel
C16_IdentityUnderDefaults ==
  params = defaultParams /\ workerData # NoData =>
    \A i \in 1..Len(imageData.data) : \A c \in Channels :
      workerData.data[i][c] - imageData.data[i][c] \in (0 - 1)..1

\* every channel of the image is a whole number in 0..255
InRange(image) ==
  \A i \in 1..Len(image.data) : \A c \in Channels : image.data[i][c] \in 0..MaxChannel

Corners(image) ==
  {1, image.width, (image.height - 1) * image.width + 1, image.height * image.width}

\* the Effects stage on the same image with another vignette amount
EffectsAt(amount) ==
  applyEffects(imageData, [params EXCEPT !.vignette = amount], [i \in 1..Len(imageData.data) |-> NoDraw])

\* pixel i lies within half the radius: its normalised distance from the
\* centre, 1 at the middle of an edge, is at most 0.5
WithinHalfRadius(image, i) ==
  4 * DistNum(image.width, image.height, (i - 1) % image.width, (i - 1) \div image.width)
    <= DistDen(image.width, image.height) * DistDen(image.width, image.height)

====
